---- MODULE Spec2Model ----
(***************************************************************************)
(* PAC proxy demo (demo/demo.js): the rule set of proxied domains, the     *)
(* generated FindProxyForURL artifact, and the two suffix scans that       *)
(* decide PROXY or DIRECT for a host name.                                  *)
(*                                                                         *)
(* A JavaScript string is a sequence of one-character strings; positions   *)
(* passed to the string operators are JavaScript's (0-based).              *)
(***************************************************************************)
EXTENDS Integers, Sequences, FiniteSets, TLC

(***************************************************************************)
(* Characters, in UTF-16 code unit order (the order Array.prototype.sort   *)
(* uses by default).                                                        *)
(***************************************************************************)
Alphabet ==
  <<" ","-",".","0","1","2","3","4","5","6","7","8","9",
    "A","B","C","D","E","F","G","H","I","J","K","L","M",
    "N","O","P","Q","R","S","T","U","V","W","X","Y","Z",
    "a","b","c","d","e","f","g","h","i","j","k","l","m",
    "n","o","p","q","r","s","t","u","v","w","x","y","z">>

\* the code unit order of each character, tabulated once
CodeTable ==
  [c \in {Alphabet[i] : i \in 1..Len(Alphabet)} |->
     CHOOSE i \in 1..Len(Alphabet) : Alphabet[i] = c]

Code(c) == CodeTable[c]

IsDigit(c) == c \in {"0","1","2","3","4","5","6","7","8","9"}

IsUpper(c) ==
  c \in {"A","B","C","D","E","F","G","H","I","J","K","L","M",
         "N","O","P","Q","R","S","T","U","V","W","X","Y","Z"}

IsLower(c) ==
  c \in {"a","b","c","d","e","f","g","h","i","j","k","l","m",
         "n","o","p","q","r","s","t","u","v","w","x","y","z"}

\* the regex class [a-zA-Z]
IsAlpha(c) == IsUpper(c) \/ IsLower(c)

\* the regex class [a-zA-Z0-9]
IsAlnum(c) == IsAlpha(c) \/ IsDigit(c)

\* the regex class [a-zA-Z0-9-]
IsAlnumHyphen(c) == IsAlnum(c) \/ c = "-"

\* String.prototype.toLowerCase
ToLowerCase(s) ==
  [i \in 1..Len(s) |->
     IF IsUpper(s[i]) THEN Alphabet[Code(s[i]) + (Code("a") - Code("A"))] ELSE s[i]]

RECURSIVE TrimStart(_)
TrimStart(s) == IF s # <<>> /\ Head(s) = " " THEN TrimStart(Tail(s)) ELSE s

RECURSIVE TrimEnd(_)
TrimEnd(s) ==
  IF s # <<>> /\ s[Len(s)] = " " THEN TrimEnd(SubSeq(s, 1, Len(s) - 1)) ELSE s

\* String.prototype.trim
Trim(s) == TrimEnd(TrimStart(s))

\* host.lastIndexOf('.', from): the largest 0-based index <= from holding a dot, or -1
LastIndexOf(s, from) ==
  LET start == IF from < 0 THEN 0 ELSE IF from > Len(s) - 1 THEN Len(s) - 1 ELSE from
      hits  == {i \in 0..start : s[i + 1] = "."}
  IN  IF hits = {} THEN -1 ELSE CHOOSE i \in hits : \A j \in hits : j <= i

\* host.substring(start)
Substring(s, start) ==
  LET b == IF start < 0 THEN 0 ELSE IF start > Len(s) THEN Len(s) ELSE start
  IN  SubSeq(s, b + 1, Len(s))

\* hostname.split('.'): never empty, "" splits to [""]
RECURSIVE Split(_)
Split(s) ==
  LET dots == {i \in 1..Len(s) : s[i] = "."}
  IN  IF dots = {} THEN <<s>>
      ELSE LET k == CHOOSE i \in dots : \A j \in dots : i <= j
           IN  <<SubSeq(s, 1, k - 1)>> \o Split(SubSeq(s, k + 1, Len(s)))

\* parts.join('.')
RECURSIVE Join(_)
Join(parts) ==
  IF parts = <<>> THEN <<>>
  ELSE IF Len(parts) = 1 THEN parts[1]
  ELSE parts[1] \o <<".">> \o Join(Tail(parts))

\* parts.slice(i), i 0-based
Slice(parts, i) == SubSeq(parts, i + 1, Len(parts))

\* a < b as the default sort comparator orders strings: by code units, a
\* proper prefix first
LexLess(a, b) ==
  LET n     == IF Len(a) < Len(b) THEN Len(a) ELSE Len(b)
      diffs == {i \in 1..n : a[i] # b[i]}
  IN  IF diffs = {} THEN Len(a) < Len(b)
      ELSE LET k == CHOOSE i \in diffs : \A j \in diffs : i <= j
           IN  Code(a[k]) < Code(b[k])

\* x put before the first element, from index i on, that it is less than
RECURSIVE Insert(_, _, _)
Insert(sorted, x, i) ==
  IF i > Len(sorted) THEN Append(sorted, x)
  ELSE IF LexLess(x, sorted[i])
  THEN SubSeq(sorted, 1, i - 1) \o <<x>> \o SubSeq(sorted, i, Len(sorted))
  ELSE Insert(sorted, x, i + 1)

RECURSIVE SortFrom(_, _)
SortFrom(arr, i) ==
  IF i > Len(arr) THEN <<>> ELSE Insert(SortFrom(arr, i + 1), arr[i], 1)

\* Array.from(this.domains).sort()
Sort(arr) == SortFrom(arr, 1)

Range(seq) == {seq[i] : i \in 1..Len(seq)}

(***************************************************************************)
(* this.domains is a JavaScript Set: it iterates in insertion order, so    *)
(* it is a sequence without repetitions.                                   *)
(***************************************************************************)
SetHas(set, x) == x \in Range(set)

\* an add that moves an element already present to the end
SetAddMovesToEnd(set, x) == Append(SelectSeq(set, LAMBDA e : e # x), x)

SetAdd(set, x) == IF SetHas(set, x) THEN set ELSE Append(set, x)

SetDelete(set, x) == SelectSeq(set, LAMBDA e : e # x)

defaultDomains ==
  << <<"f","a","c","e","b","o","o","k",".","c","o","m">>,
     <<"t","w","i","t","t","e","r",".","c","o","m">>,
     <<"y","o","u","t","u","b","e",".","c","o","m">>,
     <<"g","o","o","g","l","e",".","c","o","m">>,
     <<"i","n","s","t","a","g","r","a","m",".","c","o","m">>,
     <<"g","i","t","h","u","b",".","c","o","m">>,
     <<"s","t","a","c","k","o","v","e","r","f","l","o","w",".","c","o","m">>,
     <<"w","i","k","i","p","e","d","i","a",".","o","r","g">>,
     <<"r","e","d","d","i","t",".","c","o","m">>,
     <<"t","w","i","t","c","h",".","t","v">>,
     <<"d","i","s","c","o","r","d",".","c","o","m">>,
     <<"t","e","l","e","g","r","a","m",".","o","r","g">>,
     <<"d","r","o","p","b","o","x",".","c","o","m">>,
     <<"n","e","t","f","l","i","x",".","c","o","m">>,
     <<"s","p","o","t","i","f","y",".","c","o","m">>,
     <<"a","m","a","z","o","n",".","c","o","m">>,
     <<"b","b","c",".","c","o","m">>,
     <<"c","n","n",".","c","o","m">>,
     <<"r","e","u","t","e","r","s",".","c","o","m">>,
     <<"b","l","o","o","m","b","e","r","g",".","c","o","m">>,
     <<"s","l","i","d","e","s","h","a","r","e",".","n","e","t">>,
     <<"p","i","n","t","e","r","e","s","t",".","c","o","m">>,
     <<"t","u","m","b","l","r",".","c","o","m">>,
     <<"v","i","m","e","o",".","c","o","m">> >>

\* defaultDomains.forEach(domain => this.domains.add(domain))
RECURSIVE AddAll(_, _)
AddAll(set, arr) ==
  IF arr = <<>> THEN set ELSE AddAll(SetAdd(set, Head(arr)), Tail(arr))

loadDefaultDomains == AddAll(<<>>, defaultDomains)

\* this.proxyServer
defaultProxyServer == "162.159.138.110:443"

(***************************************************************************)
(* isValidDomain: either regular expression matches the whole string.      *)
(* Both admit exactly one dot.                                              *)
(***************************************************************************)
\* [a-zA-Z]{2,}$ on the text after the dot at 1-based index k
TldMatches(s, k) ==
  /\ Len(s) - k >= 2
  /\ \A i \in (k + 1)..Len(s) : IsAlpha(s[i])

\* /^[a-zA-Z0-9][a-zA-Z0-9-]{1,61}[a-zA-Z0-9]\.[a-zA-Z]{2,}$/
domainRegex(s) ==
  \E k \in 1..Len(s) :
     /\ s[k] = "."
     /\ k - 1 >= 3 /\ k - 1 <= 63
     /\ IsAlnum(s[1]) /\ IsAlnum(s[k - 1])
     /\ \A i \in 2..(k - 2) : IsAlnumHyphen(s[i])
     /\ TldMatches(s, k)

\* /^[a-zA-Z0-9-]+\.[a-zA-Z]{2,}$/
looseRegex(s) ==
  \E k \in 1..Len(s) :
     /\ s[k] = "."
     /\ k - 1 >= 1
     /\ \A i \in 1..(k - 1) : IsAlnumHyphen(s[i])
     /\ TldMatches(s, k)

\* the second expression with its top-level domain optional:
\* /^[a-zA-Z0-9-]+(\.[a-zA-Z]{2,})?$/
isValidDomainOptionalTld(domain) ==
  \/ domainRegex(domain)
  \/ looseRegex(domain)
  \/ (domain # <<>> /\ \A i \in 1..Len(domain) : IsAlnumHyphen(domain[i]))

\* the second expression with digits allowed in the top-level domain:
\* /^[a-zA-Z0-9-]+\.[a-zA-Z0-9]+$/
isValidDomainNumericTld(domain) ==
  \/ domainRegex(domain)
  \/ looseRegex(domain)
  \/ \E k \in 1..Len(domain) :
        /\ domain[k] = "."
        /\ k - 1 >= 1 /\ Len(domain) - k >= 1
        /\ \A i \in 1..(k - 1) : IsAlnumHyphen(domain[i])
        /\ \A i \in (k + 1)..Len(domain) : IsAlnum(domain[i])

\* the second expression with dots allowed before the top-level domain:
\* /^[a-zA-Z0-9.-]+\.[a-zA-Z]{2,}$/
isValidDomainDottedLabel(domain) ==
  \/ domainRegex(domain)
  \/ looseRegex(domain)
  \/ \E k \in 1..Len(domain) :
        /\ domain[k] = "."
        /\ k - 1 >= 1
        /\ \A i \in 1..(k - 1) : IsAlnumHyphen(domain[i]) \/ domain[i] = "."
        /\ TldMatches(domain, k)

isValidDomain(domain) == domainRegex(domain) \/ looseRegex(domain)

(***************************************************************************)
(* generatePACCode: the artifact is a fixed template with two holes, the   *)
(* proxy directive and the keys of the mapping literal, in the order of    *)
(* Array.from(this.domains).                                                *)
(***************************************************************************)
\* document.getElementById('proxyServer').value || this.proxyServer
EffectiveProxy(field) == IF field = "" THEN defaultProxyServer ELSE field

PacText(field, set) ==
  [proxy   |-> "PROXY " \o EffectiveProxy(field) \o ";",
   direct  |-> "DIRECT;",
   entries |-> set]

(***************************************************************************)
(* The text of the artifact, as the sequence of its lexical tokens: the    *)
(* template of generatePACCode with its two holes filled.  A string        *)
(* literal is one token, whatever it contains.                             *)
(***************************************************************************)
Word(s) == [kind |-> "word", text |-> s]

Punct(s) == [kind |-> "punct", text |-> s]

Str(s) == [kind |-> "string", text |-> s]

\* domainsArray.map(domain => `"${domain}": 1`).join(',\n'), from entry i on
RECURSIVE KeyTokens(_, _)
KeyTokens(entries, i) ==
  IF i > Len(entries) THEN <<>>
  ELSE << Str(entries[i]), Punct(":"), Word("1") >>
       \o (IF i < Len(entries) THEN << Punct(",") >> ELSE <<>>)
       \o KeyTokens(entries, i + 1)

\* the template without the brace that closes the body of while(1)
PacTokensUnclosedLoop(pac) ==
  << Word("function"), Word("FindProxyForURL"), Punct("("), Word("url"),
     Punct(","), Word("host"), Punct(")"), Punct("{"),
     Word("var"), Word("proxy"), Punct("="), Str(pac.proxy), Punct(";"),
     Word("var"), Word("direct"), Punct("="), Str(pac.direct), Punct(";"),
     Word("var"), Word("domains"), Punct("="), Punct("{") >>
  \o KeyTokens(pac.entries, 1)
  \o
  << Punct("}"), Punct(";"),
     Word("var"), Word("hasOwnProperty"), Punct("="), Word("Object"),
     Punct("."), Word("hasOwnProperty"), Punct(";"),
     Word("var"), Word("suffix"), Punct(";"),
     Word("var"), Word("pos"), Punct("="), Word("host"), Punct("."),
     Word("lastIndexOf"), Punct("("), Str("."), Punct(")"), Punct(";"),
     Word("while"), Punct("("), Word("1"), Punct(")"), Punct("{"),
     Word("suffix"), Punct("="), Word("host"), Punct("."), Word("substring"),
     Punct("("), Word("pos"), Punct("+"), Word("1"), Punct(")"), Punct(";"),
     Word("if"), Punct("("), Word("hasOwnProperty"), Punct("."), Word("call"),
     Punct("("), Word("domains"), Punct(","), Word("suffix"), Punct(")"),
     Punct(")"), Punct("{"),
     Word("return"), Word("proxy"), Punct(";"),
     Punct("}"),
     Word("if"), Punct("("), Word("pos"), Punct("<="), Word("0"), Punct(")"),
     Punct("{"),
     Word("break"), Punct(";"),
     Punct("}"),
     Word("pos"), Punct("="), Word("host"), Punct("."), Word("lastIndexOf"),
     Punct("("), Str("."), Punct(","), Word("pos"), Punct("-"), Word("1"),
     Punct(")"), Punct(";"),
     Word("return"), Word("direct"), Punct(";"),
     Punct("}") >>

PacTokens(pac) ==
  << Word("function"), Word("FindProxyForURL"), Punct("("), Word("url"),
     Punct(","), Word("host"), Punct(")"), Punct("{"),
     Word("var"), Word("proxy"), Punct("="), Str(pac.proxy), Punct(";"),
     Word("var"), Word("direct"), Punct("="), Str(pac.direct), Punct(";"),
     Word("var"), Word("domains"), Punct("="), Punct("{") >>
  \o KeyTokens(pac.entries, 1)
  \o
  << Punct("}"), Punct(";"),
     Word("var"), Word("hasOwnProperty"), Punct("="), Word("Object"),
     Punct("."), Word("hasOwnProperty"), Punct(";"),
     Word("var"), Word("suffix"), Punct(";"),
     Word("var"), Word("pos"), Punct("="), Word("host"), Punct("."),
     Word("lastIndexOf"), Punct("("), Str("."), Punct(")"), Punct(";"),
     Word("while"), Punct("("), Word("1"), Punct(")"), Punct("{"),
     Word("suffix"), Punct("="), Word("host"), Punct("."), Word("substring"),
     Punct("("), Word("pos"), Punct("+"), Word("1"), Punct(")"), Punct(";"),
     Word("if"), Punct("("), Word("hasOwnProperty"), Punct("."), Word("call"),
     Punct("("), Word("domains"), Punct(","), Word("suffix"), Punct(")"),
     Punct(")"), Punct("{"),
     Word("return"), Word("proxy"), Punct(";"),
     Punct("}"),
     Word("if"), Punct("("), Word("pos"), Punct("<="), Word("0"), Punct(")"),
     Punct("{"),
     Word("break"), Punct(";"),
     Punct("}"),
     Word("pos"), Punct("="), Word("host"), Punct("."), Word("lastIndexOf"),
     Punct("("), Str("."), Punct(","), Word("pos"), Punct("-"), Word("1"),
     Punct(")"), Punct(";"),
     Punct("}"),
     Word("return"), Word("direct"), Punct(";"),
     Punct("}") >>

(***************************************************************************)
(* ConfigValidator.validate: static structural checks of an artifact text. *)
(***************************************************************************)
\* how many times the entry point is declared
EntryPointCount(tokens) ==
  Cardinality({i \in 1..(Len(tokens) - 1) :
                 /\ tokens[i] = Word("function")
                 /\ tokens[i + 1] = Word("FindProxyForURL")})

Closer(open) == IF open = "(" THEN ")" ELSE IF open = "{" THEN "}" ELSE "]"

\* the delimiters of the text, in order
Delimiters(tokens) ==
  SelectSeq(tokens,
            LAMBDA k : k.kind = "punct"
                       /\ k.text \in {"(", ")", "{", "}", "[", "]"})

\* every closing delimiter closes the delimiter opened last, and none is
\* left open; stack holds the open ones, innermost last
RECURSIVE Nested(_, _, _)
Nested(delims, i, stack) ==
  IF i > Len(delims) THEN stack = <<>>
  ELSE IF delims[i].text \in {"(", "{", "["}
  THEN Nested(delims, i + 1, Append(stack, delims[i].text))
  ELSE /\ stack # <<>>
       /\ Closer(stack[Len(stack)]) = delims[i].text
       /\ Nested(delims, i + 1, SubSeq(stack, 1, Len(stack) - 1))

Balanced(tokens) == Nested(Delimiters(tokens), 1, <<>>)

\* the positions of the keys of the mapping literal: a string literal
\* followed by a colon
KeyPositions(tokens) ==
  {i \in 1..(Len(tokens) - 1) :
     tokens[i].kind = "string" /\ tokens[i + 1] = Punct(":")}

DuplicateKeys(tokens) ==
  \E i, j \in KeyPositions(tokens) :
     i # j /\ tokens[i].text = tokens[j].text

validate(tokens) ==
  LET issues ==
        (IF EntryPointCount(tokens) = 1 THEN {} ELSE {"entry point"})
        \cup (IF Balanced(tokens) THEN {} ELSE {"delimiters"})
        \cup (IF DuplicateKeys(tokens) THEN {"duplicate key"} ELSE {})
  IN  [ok |-> issues = {}, issues |-> issues]

(***************************************************************************)
(* checkDomainInPAC: for (i = 0; i < parts.length - 1; i++) tests          *)
(* parts.slice(i).join('.').  The result records the candidates tested.    *)
(***************************************************************************)
RECURSIVE CheckLoop(_, _, _, _)
CheckLoop(parts, i, set, tried) ==
  IF i < Len(parts) - 1
  THEN LET domain == Join(Slice(parts, i))
       IN  IF SetHas(set, domain)
           THEN [ret |-> "true", tried |-> Append(tried, domain)]
           ELSE CheckLoop(parts, i + 1, set, Append(tried, domain))
  ELSE [ret |-> "false", tried |-> tried]

\* the loop started at i = 1: the host name itself is never tested
checkDomainInPACFromOne(hostname, set) == CheckLoop(Split(hostname), 1, set, <<>>)

checkDomainInPAC(hostname, set) == CheckLoop(Split(hostname), 0, set, <<>>)

(***************************************************************************)
(* Inputs.                                                                 *)
(***************************************************************************)
\* most labels in a generated host name
MaxHostLabels == 2

HostLabels == { <<>>, <<"d">>, <<"c","o","m">> }

GeneratedHosts ==
  UNION { {Join(p) : p \in [1..n -> HostLabels]} : n \in 1..MaxHostLabels }

ExtraHosts ==
  { <<"c",".","d",".","c","o","m">>,                                   \* c.d.com
    <<"x",".","y",".","c","o","m">>,                                   \* x.y.com
    <<"f","a","c","e","b","o","o","k",".","c","o","m">>,               \* facebook.com
    <<"w","w","w",".","f","a","c","e","b","o","o","k",".","c","o","m">>, \* www.facebook.com
    <<"e","x","a","m","p","l","e",".","o","r","g">>,                   \* example.org
    <<"1",".","2",".","3",".","4">>,                                   \* 1.2.3.4
    <<".","d",".","c","o","m">>,                                       \* .d.com
    <<"d",".","c","o","m",".">>,                                       \* d.com.
    <<"d",".",".","c","o","m">> }                                      \* d..com

Hosts == GeneratedHosts \cup ExtraHosts

\* what the user types into the newDomain field
AddInputs ==
  { <<>>,                                                \* empty
    <<"d",".","c","o","m">>,                             \* d.com
    <<" ","D",".","C","o","m"," ">>,                     \* D.Com, padded
    <<"c","o","m">>,                                     \* com
    <<"c",".","d",".","c","o","m">>,                     \* c.d.com
    <<"d",".","c","o","m",".">>,                         \* d.com.
    <<"3",".","4">>,                                     \* 3.4
    <<"f","a","c","e","b","o","o","k",".","c","o","m">> } \* facebook.com

\* the argument of removeDomain
RemoveArgs ==
  { <<"f","a","c","e","b","o","o","k",".","c","o","m">>,
    <<"d",".","c","o","m">>,
    <<"e","x","a","m","p","l","e",".","o","r","g">> }

\* what the proxyServer field can hold
ProxyInputs == { "", "10.0.0.1:8080" }

(***************************************************************************)
(* State.                                                                  *)
(***************************************************************************)
VARIABLES
  domains,          \* this.domains, in insertion order
  proxyServerField, \* value of the proxyServer input element
  newDomain,        \* value of the newDomain input element
  domainList,       \* the rendered domain list (renderDomainList)
  pacCode,          \* text of the pacCode element: the displayed artifact
  notification,     \* the toast last shown by showNotification
  decide,           \* the running or just returned call of a decision function
  last,             \* the handler that ran last, its argument, and whether it
                    \* found the value it wrote already in place
  clipboard,        \* the text on the system clipboard
  downloaded,       \* the file the browser saved last
  pendingCopy,      \* the texts of the clipboard writes not yet settled
  ruleSet,          \* the rule set the lifecycle manager holds for its path
  managedFile,      \* the content of the managed file
  history,          \* the backup records of the path, in order of creation
  clock,            \* the timestamp of the newest record ever created
  mutated,          \* whether the managed file has been mutated
  policy,           \* the retention policy configured
  outcome,          \* what the manager's last operation returned
  testResult,       \* content of the testResult element
  pendingTests,     \* the testPAC timers not yet fired, oldest first
  performanceData,  \* this.performanceData, by the type of each entry
  chart,            \* performanceChart.data: labels and datasets[0].data
  stats,            \* the avgLatency, activeProxies, successRate elements
  time,             \* the metric updates and animation frames so far
  seed,             \* the state Math.random started from
  lastMetrics,      \* this.lastMetrics
  animationFrameId, \* this.animationFrameId, 0 for null
  frames,           \* the animation-frame callbacks requested, oldest first
  requested,        \* the handle requestAnimationFrame returned last
  stopped,          \* whether stopPerformanceMonitoring has returned
  shell,            \* where the launcher is: "checking", "menu" or "exited"
  exitStatus,       \* the status the launcher exited with, once it has
  cwd,              \* the launcher's working directory: "root" or "demo"
  log,              \* what the launcher echoed, read and ran, in order
  rounds            \* the menu choices read so far

\* the page
page == <<domains, proxyServerField, newDomain, domainList, pacCode,
          notification, decide, last>>

\* what holds text that has left the page
exported == <<clipboard, downloaded, pendingCopy>>

\* the lifecycle manager and its files
managed == <<ruleSet, managedFile, history, clock, mutated, policy, outcome>>

\* the URL tester
tester == <<testResult, pendingTests, performanceData>>

\* the parts of the repository next to the page, the exports and the manager
\* the performance monitor
monitor == <<chart, stats, time, seed, lastMetrics, animationFrameId, frames,
             requested, stopped>>

\* the launcher
launcher == <<shell, exitStatus, cwd, log, rounds>>

others == <<tester, monitor, launcher>>

vars == <<domains, proxyServerField, newDomain, domainList, pacCode,
          notification, decide, last, exported, managed, others>>

NoCall ==
  [fn |-> "none", pc |-> "idle", host |-> <<>>, table |-> <<>>,
   pos |-> -1, suffix |-> <<>>, tried |-> <<>>, ret |-> "none"]

NoNotification == [message |-> "", type |-> "none"]

NoText == [proxy |-> "", direct |-> "", entries |-> <<>>]

NoFile == [name |-> "", type |-> "", text |-> NoText]

\* most clipboard writes in flight at a time
MaxPendingCopies == 1

(***************************************************************************)
(* The configuration lifecycle manager: one managed path, its rule set,    *)
(* its file and its backups.                                               *)
(***************************************************************************)
\* most snapshots taken in a run
MaxSnapshots == 6

ManagedPath == "pac"

\* the rule sets a mutation can leave
ManagedRuleSets == { {"d.com"}, {"c.com", "d.com"} }

\* generate, as far as the manager sees it: a text that lists the entries
Render(rules) == [entries |-> rules]

\* the size of a text in bytes; a unit per entry
Size(text) == Cardinality(text.entries)

\* the policies that pass configuration: the maximum count is never zero
Policies ==
  { [maxCount |-> 1],
    [maxCount |-> 3],
    [maxCount |-> 3, maxTotalBytes |-> 1],
    [maxCount |-> 3, maxTotalBytes |-> 3] }

NoOutcome ==
  [op |-> "none", result |-> "none", regenerated |-> FALSE, evicted |-> <<>>]

\* snapshot(path): a record of the content read, or BackupError when the
\* source cannot be read
snapshot(path, text, readable, now) ==
  IF readable
  THEN [path |-> path, content |-> text, timestamp |-> now, size |-> Size(text)]
  ELSE "BackupError"

RECURSIVE TotalBytes(_, _)
TotalBytes(records, i) ==
  IF i > Len(records) THEN 0 ELSE records[i].size + TotalBytes(records, i + 1)

WithinPolicy(p, records) ==
  /\ Len(records) <= p.maxCount
  /\ "maxTotalBytes" \in DOMAIN p => TotalBytes(records, 1) <= p.maxTotalBytes

Oldest(records) ==
  CHOOSE r \in Range(records) :
    \A q \in Range(records) : r.timestamp <= q.timestamp

\* a prune that evicts while the count has reached the maximum, not only
\* while it exceeds it
RECURSIVE pruneOffByOne(_, _)
pruneOffByOne(p, records) ==
  IF Len(records) > 1
     /\ (Len(records) >= p.maxCount \/ ~WithinPolicy(p, records))
  THEN pruneOffByOne(p, SelectSeq(records, LAMBDA r : r # Oldest(records)))
  ELSE records

\* a prune that keeps evicting down to nothing
RECURSIVE pruneToNothing(_, _)
pruneToNothing(p, records) ==
  IF records # <<>> /\ ~WithinPolicy(p, records)
  THEN pruneToNothing(p, SelectSeq(records, LAMBDA r : r # Oldest(records)))
  ELSE records

\* prune(policy): the records left when the oldest have been evicted until
\* the policy holds or a single record, the most recent, is left
RECURSIVE prune(_, _)
prune(p, records) ==
  IF Len(records) > 1 /\ ~WithinPolicy(p, records)
  THEN prune(p, SelectSeq(records, LAMBDA r : r # Oldest(records)))
  ELSE records

\* the records prune returns: those of records that kept has no more
Evicted(records, kept) ==
  SelectSeq(records, LAMBDA r : r \notin Range(kept))

\* the manager before its first operation: the managed file exists and no
\* backup of it has been taken
ManagedInit ==
  /\ ruleSet = {"d.com"}
  /\ managedFile = Render(ruleSet)
  /\ history = <<>>
  /\ clock = 0
  /\ mutated = FALSE
  /\ outcome = NoOutcome

NoTestResult == [kind |-> "none"]

\* the tester before its first test
TesterInit ==
  /\ testResult = NoTestResult
  /\ pendingTests = <<>>
  /\ performanceData = <<>>

NoMetrics == [latency |-> 0, activeProxies |-> 0, successRate |-> 0]

\* initPerformanceChart: labels: [], data: []
NoChart == [labels |-> <<>>, data |-> <<>>]

\* the monitor with no callback requested and no update made
MonitorIdle ==
  /\ chart = NoChart
  /\ stats = NoMetrics
  /\ time = 0
  /\ lastMetrics = NoMetrics
  /\ animationFrameId = 0
  /\ frames = <<>>
  /\ requested = 0
  /\ stopped = FALSE

\* the launcher as it starts, below set -e
LauncherInit ==
  /\ shell = "checking"
  /\ exitStatus = 0
  /\ cwd = "root"
  /\ log = <<>>
  /\ rounds = 0

OthersInit == TesterInit /\ MonitorIdle /\ seed = 0 /\ LauncherInit

\* new PACDemo(): loadDefaultDomains, renderDomainList, generatePACCode
Init ==
  /\ domains = loadDefaultDomains
  /\ proxyServerField \in ProxyInputs
  /\ newDomain = <<>>
  /\ domainList = Sort(domains)
  /\ pacCode = PacText(proxyServerField, domains)
  /\ notification = NoNotification
  /\ decide = NoCall
  /\ last = [op |-> "init", arg |-> <<>>, repeat |-> FALSE]
  /\ clipboard = NoText
  /\ downloaded = NoFile
  /\ pendingCopy = <<>>
  /\ ManagedInit
  /\ policy = [maxCount |-> 3]
  /\ OthersInit

\* a handler runs to completion: none starts inside a call of a decision
\* function
Idle == decide.pc = "idle"

\* addDomain without toLowerCase()
AddDomainNoLowerCase(v) ==
  LET domain == Trim(v)
  IN  /\ Idle
      /\ IF domain # <<>> /\ isValidDomain(domain)
         THEN /\ domains' = SetAdd(domains, domain)
              /\ newDomain' = <<>>
              /\ domainList' = Sort(domains')
              /\ pacCode' = PacText(proxyServerField, domains')
              /\ notification' =
                   [message |-> "Domain added successfully!", type |-> "success"]
         ELSE /\ newDomain' = v
              /\ notification' =
                   [message |-> "Please enter a valid domain name.", type |-> "error"]
              /\ UNCHANGED <<domains, domainList, pacCode>>
      /\ decide' = NoCall
      /\ last' = [op |-> "addDomain", arg |-> v, repeat |-> FALSE]
      /\ UNCHANGED <<exported, managed, others, proxyServerField>>

\* addDomain adding and rendering before it validates
AddDomainAddsFirst(v) ==
  LET domain == ToLowerCase(Trim(v))
  IN  /\ Idle
      /\ domains' = SetAdd(domains, domain)
      /\ domainList' = Sort(domains')
      /\ pacCode' = PacText(proxyServerField, domains')
      /\ IF domain # <<>> /\ isValidDomain(domain)
         THEN /\ newDomain' = <<>>
              /\ notification' =
                   [message |-> "Domain added successfully!", type |-> "success"]
         ELSE /\ newDomain' = v
              /\ notification' =
                   [message |-> "Please enter a valid domain name.", type |-> "error"]
      /\ decide' = NoCall
      /\ last' = [op |-> "addDomain", arg |-> v, repeat |-> FALSE]
      /\ UNCHANGED <<exported, managed, others, proxyServerField>>

(***************************************************************************)
(* addDomain: the user has typed v into the newDomain field.               *)
(***************************************************************************)
AddDomain(v) ==
  LET domain == ToLowerCase(Trim(v))
  IN  /\ Idle
      /\ IF domain # <<>> /\ isValidDomain(domain)
         THEN /\ domains' = SetAdd(domains, domain)
              /\ newDomain' = <<>>
              /\ domainList' = Sort(domains')
              /\ pacCode' = PacText(proxyServerField, domains')
              /\ notification' =
                   [message |-> "Domain added successfully!", type |-> "success"]
         ELSE /\ newDomain' = v
              /\ notification' =
                   [message |-> "Please enter a valid domain name.", type |-> "error"]
              /\ UNCHANGED <<domains, domainList, pacCode>>
      /\ decide' = NoCall
      /\ last' = [op |-> "addDomain", arg |-> v, repeat |-> FALSE]
      /\ UNCHANGED <<exported, managed, others, proxyServerField>>

\* removeDomain without its generatePACCode() call
RemoveDomainNoGenerate(domain) ==
  /\ Idle
  /\ domains' = SetDelete(domains, domain)
  /\ domainList' = Sort(domains')
  /\ notification' =
       [message |-> "Domain removed successfully!", type |-> "warning"]
  /\ decide' = NoCall
  /\ last' = [op |-> "removeDomain", arg |-> domain, repeat |-> FALSE]
  /\ UNCHANGED <<exported, managed, others, proxyServerField, newDomain, pacCode>>

(***************************************************************************)
(* removeDomain(domain)                                                    *)
(***************************************************************************)
RemoveDomain(domain) ==
  /\ Idle
  /\ domains' = SetDelete(domains, domain)
  /\ domainList' = Sort(domains')
  /\ pacCode' = PacText(proxyServerField, domains')
  /\ notification' =
       [message |-> "Domain removed successfully!", type |-> "warning"]
  /\ decide' = NoCall
  /\ last' = [op |-> "removeDomain", arg |-> domain, repeat |-> FALSE]
  /\ UNCHANGED <<exported, managed, others, proxyServerField, newDomain>>

(***************************************************************************)
(* the 'input' listener of the proxyServer field: the field now holds v    *)
(* and the artifact is generated again.                                    *)
(***************************************************************************)
\* the field without its 'input' listener: the artifact is left as it was
ProxyServerInputNoGenerate(v) ==
  /\ Idle
  /\ proxyServerField' = v
  /\ decide' = NoCall
  /\ last' = [op |-> "proxyServerInput", arg |-> <<>>,
              repeat |-> (v = proxyServerField)]
  /\ UNCHANGED <<exported, managed, others, domains, newDomain, domainList, pacCode, notification>>

ProxyServerInput(v) ==
  /\ Idle
  /\ proxyServerField' = v
  /\ pacCode' = PacText(v, domains)
  /\ decide' = NoCall
  /\ last' = [op |-> "proxyServerInput", arg |-> <<>>,
              repeat |-> (v = proxyServerField)]
  /\ UNCHANGED <<exported, managed, others, domains, newDomain, domainList, notification>>

(***************************************************************************)
(* checkDomainInPAC(hostname), called on the current rule set.             *)
(***************************************************************************)
CheckDomainInPAC(hostname) ==
  LET r == checkDomainInPAC(hostname, domains)
  IN  /\ Idle
      /\ decide' = [NoCall EXCEPT !.fn = "checkDomainInPAC", !.pc = "done",
                                  !.host = hostname, !.table = domains,
                                  !.tried = r.tried, !.ret = r.ret]
      /\ last' = [op |-> "decide", arg |-> <<>>, repeat |-> FALSE]
      /\ UNCHANGED <<exported, managed, others, domains, proxyServerField, newDomain, domainList, pacCode,
                     notification>>

(***************************************************************************)
(* FindProxyForURL(url, host) of the displayed artifact, run by a client:  *)
(* the statements before the loop, then one action per loop iteration.     *)
(***************************************************************************)
FindProxyForURL(host) ==
  /\ Idle
  /\ decide' = [NoCall EXCEPT !.fn = "FindProxyForURL", !.pc = "loop",
                              !.host = host, !.table = pacCode.entries,
                              !.pos = LastIndexOf(host, Len(host))]
  /\ last' = [op |-> "decide", arg |-> <<>>, repeat |-> FALSE]
  /\ UNCHANGED <<exported, managed, others, domains, proxyServerField, newDomain, domainList, pacCode,
                 notification>>

\* the loop body with the break test moved before the membership test
ScanBodyBreaksFirst(f) ==
  LET suffix == Substring(f.host, f.pos + 1)
      tried  == Append(f.tried, suffix)
  IN  IF f.pos <= 0
      THEN [f EXCEPT !.suffix = suffix, !.ret = "direct", !.pc = "done"]
      ELSE IF SetHas(f.table, suffix)
      THEN [f EXCEPT !.suffix = suffix, !.tried = tried,
                     !.ret = "proxy", !.pc = "done"]
      ELSE [f EXCEPT !.suffix = suffix, !.tried = tried,
                     !.pos = LastIndexOf(f.host, f.pos - 1)]

\* the loop body searching again from pos instead of pos - 1
ScanBodyNoProgress(f) ==
  LET suffix == Substring(f.host, f.pos + 1)
      tried  == Append(f.tried, suffix)
  IN  IF SetHas(f.table, suffix)
      THEN [f EXCEPT !.suffix = suffix, !.tried = tried,
                     !.ret = "proxy", !.pc = "done"]
      ELSE IF f.pos <= 0
      THEN [f EXCEPT !.suffix = suffix, !.tried = tried,
                     !.ret = "direct", !.pc = "done"]
      ELSE [f EXCEPT !.suffix = suffix, !.tried = tried,
                     !.pos = LastIndexOf(f.host, f.pos)]

\* one iteration of while(1)
ScanBody(f) ==
  LET suffix == Substring(f.host, f.pos + 1)
      tried  == Append(f.tried, suffix)
  IN  IF SetHas(f.table, suffix)
      THEN [f EXCEPT !.suffix = suffix, !.tried = tried,
                     !.ret = "proxy", !.pc = "done"]
      ELSE IF f.pos <= 0
      THEN [f EXCEPT !.suffix = suffix, !.tried = tried,
                     !.ret = "direct", !.pc = "done"]
      ELSE [f EXCEPT !.suffix = suffix, !.tried = tried,
                     !.pos = LastIndexOf(f.host, f.pos - 1)]

ScanIteration ==
  /\ decide.pc = "loop"
  /\ decide' = ScanBody(decide)
  /\ UNCHANGED <<exported, managed, others, domains, proxyServerField, newDomain, domainList, pacCode,
                 notification, last>>

\* the decision function returns decide.ret to its caller
DecisionReturns ==
  /\ decide.pc = "done"
  /\ decide' = NoCall
  /\ UNCHANGED <<exported, managed, others, domains, proxyServerField, newDomain, domainList, pacCode,
                 notification, last>>

Next ==
  \/ \E v \in AddInputs : AddDomain(v)
  \/ \E d \in RemoveArgs : RemoveDomain(d)
  \/ \E v \in ProxyInputs : ProxyServerInput(v)
  \/ \E h \in Hosts : CheckDomainInPAC(h)
  \/ \E h \in Hosts : FindProxyForURL(h)
  \/ ScanIteration
  \/ DecisionReturns

Spec == Init /\ [][Next]_vars

\* the client's engine keeps running a scan it has started
FairSpec == Spec /\ WF_vars(ScanIteration)

(***************************************************************************)
(* The ways the artifact leaves the page: copyPAC and downloadPAC, next to *)
(* the handlers that generate it.                                          *)
(***************************************************************************)
\* demo.generatePACCode()
GeneratePACCode ==
  /\ Idle
  /\ pacCode' = PacText(proxyServerField, domains)
  /\ decide' = NoCall
  /\ last' = [op |-> "generatePACCode", arg |-> <<>>, repeat |-> FALSE]
  /\ UNCHANGED <<domains, proxyServerField, newDomain, domainList,
                 notification, exported, managed, others>>

\* copyPAC up to the return of navigator.clipboard.writeText
CopyPAC ==
  /\ Idle
  /\ Len(pendingCopy) < MaxPendingCopies
  /\ pendingCopy' = Append(pendingCopy, pacCode)
  /\ decide' = NoCall
  /\ last' = [op |-> "copyPAC", arg |-> <<>>, repeat |-> FALSE]
  /\ UNCHANGED <<domains, proxyServerField, newDomain, domainList, pacCode,
                 notification, clipboard, downloaded, managed, others>>

\* the oldest write succeeds: the .then callback
CopyFulfilled ==
  /\ Idle
  /\ pendingCopy # <<>>
  /\ clipboard' = Head(pendingCopy)
  /\ pendingCopy' = Tail(pendingCopy)
  /\ notification' = [message |-> "PAC configuration copied to clipboard!",
                      type |-> "success"]
  /\ decide' = NoCall
  /\ last' = [op |-> "copyFulfilled", arg |-> <<>>, repeat |-> FALSE]
  /\ UNCHANGED <<domains, proxyServerField, newDomain, domainList, pacCode,
                 downloaded, managed, others>>

\* the oldest write fails: the .catch callback
CopyRejected ==
  /\ Idle
  /\ pendingCopy # <<>>
  /\ pendingCopy' = Tail(pendingCopy)
  /\ notification' = [message |-> "Failed to copy to clipboard.",
                      type |-> "error"]
  /\ decide' = NoCall
  /\ last' = [op |-> "copyRejected", arg |-> <<>>, repeat |-> FALSE]
  /\ UNCHANGED <<domains, proxyServerField, newDomain, domainList, pacCode,
                 clipboard, downloaded, managed, others>>

\* a download that renders the artifact anew, for the built-in endpoint,
\* instead of taking the text displayed
DownloadPACRendersAnew ==
  /\ Idle
  /\ downloaded' = [name |-> "proxy.pac",
                    type |-> "application/x-ns-proxy-autoconfig",
                    text |-> PacText("", domains)]
  /\ notification' = [message |-> "PAC file downloaded successfully!",
                      type |-> "success"]
  /\ decide' = NoCall
  /\ last' = [op |-> "downloadPAC", arg |-> <<>>, repeat |-> FALSE]
  /\ UNCHANGED <<domains, proxyServerField, newDomain, domainList, pacCode,
                 clipboard, pendingCopy, managed, others>>

DownloadPAC ==
  /\ Idle
  /\ downloaded' = [name |-> "proxy.pac",
                    type |-> "application/x-ns-proxy-autoconfig",
                    text |-> pacCode]
  /\ notification' = [message |-> "PAC file downloaded successfully!",
                      type |-> "success"]
  /\ decide' = NoCall
  /\ last' = [op |-> "downloadPAC", arg |-> <<>>, repeat |-> FALSE]
  /\ UNCHANGED <<domains, proxyServerField, newDomain, domainList, pacCode,
                 clipboard, pendingCopy, managed, others>>

\* the domain typed and removed while the artifact is being exported
ExportDomains == { <<"d",".","c","o","m">> }

ExportNext ==
  \/ \E v \in ExportDomains : AddDomain(v)
  \/ \E d \in ExportDomains : RemoveDomain(d)
  \/ \E v \in ProxyInputs : ProxyServerInput(v)
  \/ GeneratePACCode
  \/ CopyPAC
  \/ CopyFulfilled
  \/ CopyRejected
  \/ DownloadPAC

ExportSpec == Init /\ [][ExportNext]_vars

(***************************************************************************)
(* The operations of the lifecycle manager.                                *)
(***************************************************************************)
\* snapshot(path) on its own
Snapshot(readable) ==
  LET s == snapshot(ManagedPath, managedFile, readable, clock + 1)
  IN  /\ clock < MaxSnapshots
      /\ IF readable
         THEN /\ history' = Append(history, s)
              /\ clock' = clock + 1
              /\ outcome' = [op |-> "snapshot", result |-> "BackupRecord",
                             regenerated |-> FALSE, evicted |-> <<>>]
         ELSE /\ outcome' = [op |-> "snapshot", result |-> s,
                             regenerated |-> FALSE, evicted |-> <<>>]
              /\ UNCHANGED <<history, clock>>
      /\ UNCHANGED <<ruleSet, managedFile, mutated, policy, page, exported, others>>

\* prune(policy) on its own
Prune ==
  /\ history' = prune(policy, history)
  /\ outcome' = [op |-> "prune", result |-> "evicted", regenerated |-> FALSE,
                 evicted |-> Evicted(history, history')]
  /\ UNCHANGED <<ruleSet, managedFile, clock, mutated, policy, page, exported, others>>

\* an update that goes on when the snapshot has failed
UpdateWithoutBackup(rules, readable) ==
  /\ clock < MaxSnapshots
  /\ ruleSet' = rules
  /\ managedFile' = Render(rules)
  /\ mutated' = TRUE
  /\ IF readable
     THEN /\ history' =
               prune(policy,
                     Append(history,
                            snapshot(ManagedPath, managedFile, TRUE, clock + 1)))
          /\ clock' = clock + 1
          /\ outcome' = [op |-> "update", result |-> "ok", regenerated |-> TRUE,
                         evicted |-> Evicted(history, history')]
     ELSE /\ outcome' = [op |-> "update", result |-> "BackupError",
                         regenerated |-> TRUE, evicted |-> <<>>]
          /\ UNCHANGED <<history, clock>>
  /\ UNCHANGED <<policy, page, exported, others>>

\* a rule-set update: snapshot, mutate, generate and write, prune
Update(rules, readable) ==
  LET s == snapshot(ManagedPath, managedFile, readable, clock + 1)
  IN  /\ clock < MaxSnapshots
      /\ IF readable
         THEN /\ ruleSet' = rules
              /\ managedFile' = Render(rules)
              /\ mutated' = TRUE
              /\ history' = prune(policy, Append(history, s))
              /\ clock' = clock + 1
              /\ outcome' = [op |-> "update", result |-> "ok",
                             regenerated |-> TRUE,
                             evicted |-> Evicted(history, history')]
         ELSE /\ outcome' = [op |-> "update", result |-> s,
                             regenerated |-> FALSE, evicted |-> <<>>]
              /\ UNCHANGED <<ruleSet, managedFile, mutated, history, clock>>
      /\ UNCHANGED <<policy, page, exported, others>>

BackupNext ==
  \/ \E readable \in BOOLEAN : Snapshot(readable)
  \/ Prune
  \/ \E rules \in ManagedRuleSets, readable \in BOOLEAN : Update(rules, readable)

\* the page as it was constructed, the manager under any policy that
\* passes configuration
BackupInit ==
  /\ domains = loadDefaultDomains
  /\ proxyServerField = ""
  /\ newDomain = <<>>
  /\ domainList = Sort(domains)
  /\ pacCode = PacText(proxyServerField, domains)
  /\ notification = NoNotification
  /\ decide = NoCall
  /\ last = [op |-> "init", arg |-> <<>>, repeat |-> FALSE]
  /\ clipboard = NoText
  /\ downloaded = NoFile
  /\ pendingCopy = <<>>
  /\ ManagedInit
  /\ policy \in Policies
  /\ OthersInit

BackupSpec == BackupInit /\ [][BackupNext]_vars

(***************************************************************************)
(* testPAC: the click shows "Testing" and sets a timer of one second; the  *)
(* verdict is computed in the timer's callback.                            *)
(***************************************************************************)
\* most tests submitted in a run that have fired with a verdict or are
\* still to fire
MaxTests == 2

HttpPrefix == <<"h","t","t","p",":","/","/">>

\* new URL(testUrl).hostname, for a URL that is a scheme and a host: the
\* host in lower case; a text without the scheme makes new URL throw
UrlHostname(testUrl) ==
  LET n    == Len(HttpPrefix)
      rest == SubSeq(testUrl, n + 1, Len(testUrl))
  IN  IF /\ Len(testUrl) > n
         /\ SubSeq(testUrl, 1, n) = HttpPrefix
         /\ \A i \in 1..Len(rest) : IsAlnumHyphen(rest[i]) \/ rest[i] = "."
      THEN [ok |-> TRUE, hostname |-> ToLowerCase(rest)]
      ELSE [ok |-> FALSE, hostname |-> <<>>]

\* the body of the timer's callback: what it writes into testResult
TestOutcome(testUrl, set, field) ==
  LET url == UrlHostname(testUrl)
  IN  IF url.ok
      THEN LET result == checkDomainInPAC(url.hostname, set).ret = "true"
           IN  [kind   |-> "result",
                url    |-> testUrl,
                host   |-> url.hostname,
                action |-> IF result THEN "PROXY " \o EffectiveProxy(field)
                           ELSE "DIRECT",
                status |-> IF result THEN "Will use proxy"
                           ELSE "Direct connection"]
      ELSE [kind |-> "invalid"]

\* what the testUrl field can hold
TestUrls ==
  { <<>>,
    <<"d",".","c","o","m">>,                               \* d.com
    <<"h","t","t","p",":","/","/","D",".","c","o","m">> }  \* http://D.com

\* testPAC up to setTimeout.  A timer holds the URL its closure captured;
\* asSubmitted is not in the program: it is what the callback would write
\* if it ran at once, kept for the properties
TestPAC(testUrl) ==
  /\ Idle
  /\ IF testUrl = <<>>
     THEN /\ notification' = [message |-> "Please enter a URL to test.",
                              type |-> "error"]
          /\ UNCHANGED tester
     ELSE /\ Len(pendingTests) + Len(performanceData) < MaxTests
          /\ testResult' = [kind |-> "testing", url |-> testUrl]
          /\ pendingTests' =
               Append(pendingTests,
                      [url |-> testUrl,
                       asSubmitted |->
                         TestOutcome(testUrl, domains, proxyServerField)])
          /\ UNCHANGED <<notification, performanceData>>
  /\ decide' = NoCall
  /\ last' = [op |-> "testPAC", arg |-> testUrl, repeat |-> FALSE]
  /\ UNCHANGED <<domains, proxyServerField, newDomain, domainList, pacCode,
                 exported, managed, monitor, launcher>>

\* a callback that shows the verdict of the moment of the click
TestTimerShowsSubmitted ==
  /\ Idle
  /\ pendingTests # <<>>
  /\ testResult' = Head(pendingTests).asSubmitted
  /\ pendingTests' = Tail(pendingTests)
  /\ performanceData' =
       IF testResult'.kind = "result"
       THEN Append(performanceData,
                   IF testResult'.status = "Will use proxy" THEN "proxy"
                   ELSE "direct")
       ELSE performanceData
  /\ decide' = NoCall
  /\ last' = [op |-> "testTimer", arg |-> Head(pendingTests).url,
              repeat |-> (testResult' = Head(pendingTests).asSubmitted)]
  /\ UNCHANGED <<domains, proxyServerField, newDomain, domainList, pacCode,
                 notification, exported, managed, monitor, launcher>>

\* the oldest timer fires: the setTimeout callback, addPerformanceData
\* included.  last.repeat tells whether the callback wrote what it would
\* have written at the click
TestTimerFires ==
  /\ Idle
  /\ pendingTests # <<>>
  /\ testResult' =
       TestOutcome(Head(pendingTests).url, domains, proxyServerField)
  /\ pendingTests' = Tail(pendingTests)
  /\ performanceData' =
       IF testResult'.kind = "result"
       THEN Append(performanceData,
                   IF testResult'.status = "Will use proxy" THEN "proxy"
                   ELSE "direct")
       ELSE performanceData
  /\ decide' = NoCall
  /\ last' = [op |-> "testTimer", arg |-> Head(pendingTests).url,
              repeat |-> (testResult' = Head(pendingTests).asSubmitted)]
  /\ UNCHANGED <<domains, proxyServerField, newDomain, domainList, pacCode,
                 notification, exported, managed, monitor, launcher>>

TestNext ==
  \/ \E v \in ExportDomains : AddDomain(v)
  \/ \E d \in ExportDomains : RemoveDomain(d)
  \/ \E v \in ProxyInputs : ProxyServerInput(v)
  \/ \E u \in TestUrls : TestPAC(u)
  \/ TestTimerFires

TestSpec == Init /\ [][TestNext]_vars

(***************************************************************************)
(* The performance monitor as README_EN.md gives it: a loop of animation   *)
(* frames that updates the metrics when two seconds have passed, and       *)
(* stopPerformanceMonitoring.  Rates are in tenths of a percent.           *)
(***************************************************************************)
\* most animation frames in a run
MaxFrames == 3

\* what Math.random can make of the three metrics
MetricsDrawn ==
  [latency : {70, 80}, activeProxies : {10, 11}, successRate : {980}]

Abs(x) == IF x < 0 THEN -x ELSE x

\* shouldUpdateMetrics; an undefined field of lastMetrics is 0
shouldUpdateMetrics(newMetrics, lastM) ==
  [chart |-> \/ lastM.latency = 0
             \/ Abs(newMetrics.latency - lastM.latency) >= 5,
   stats |-> \/ lastM.activeProxies = 0
             \/ newMetrics.activeProxies # lastM.activeProxies
             \/ Abs(newMetrics.successRate - lastM.successRate) >= 1]

\* updateChart that shifts the labels and leaves the data
updateChartShiftsLabelsOnly(c, now, latency) ==
  LET kept == IF Len(c.labels) > 20
              THEN [labels |-> Tail(c.labels), data |-> c.data]
              ELSE c
  IN  [labels |-> Append(kept.labels, now), data |-> Append(kept.data, latency)]

\* updateChart, and the same statements of updatePerformanceMetrics in
\* demo.js; the label is the time of the update
updateChart(c, now, latency) ==
  LET kept == IF Len(c.labels) > 20
              THEN [labels |-> Tail(c.labels), data |-> Tail(c.data)]
              ELSE c
  IN  [labels |-> Append(kept.labels, now), data |-> Append(kept.data, latency)]

\* requestAnimationFrame(callback): the handle is the next integer
RequestFrame(s, kind, metrics) ==
  [s EXCEPT !.requested = s.requested + 1,
            !.frames = Append(s.frames, [id |-> s.requested + 1, kind |-> kind,
                                         metrics |-> metrics])]

\* updatePerformanceMetrics on the monitor state s
updatePerformanceMetrics(s, newMetrics) ==
  LET should  == shouldUpdateMetrics(newMetrics, s.lastMetrics)
      charted == IF should.chart
                 THEN [s EXCEPT !.chart =
                                  updateChart(s.chart, s.time, newMetrics.latency)]
                 ELSE s
      batched == IF should.stats THEN RequestFrame(charted, "stats", newMetrics)
                 ELSE charted
  IN  [batched EXCEPT !.lastMetrics = newMetrics]

\* scheduleNextUpdate
scheduleNextUpdate(s) ==
  LET r == RequestFrame(s, "loop", NoMetrics)
  IN  [r EXCEPT !.animationFrameId = r.requested]

\* one callback of a frame: batchUpdateStats, or the callback of the loop;
\* due is whether currentTime - lastUpdateTime >= updateInterval
RunCallback(s, cb, due, newMetrics) ==
  IF cb.kind = "stats" THEN [s EXCEPT !.stats = cb.metrics]
  ELSE scheduleNextUpdate(IF due THEN updatePerformanceMetrics(s, newMetrics)
                          ELSE s)

RECURSIVE RunCallbacks(_, _, _, _, _)
RunCallbacks(s, cbs, i, due, newMetrics) ==
  IF i > Len(cbs) THEN s
  ELSE RunCallbacks(RunCallback(s, cbs[i], due, newMetrics), cbs, i + 1,
                    due, newMetrics)

\* startPerformanceMonitoring, from init(): the first frame is requested
MonitorInit ==
  /\ domains = loadDefaultDomains
  /\ proxyServerField = ""
  /\ newDomain = <<>>
  /\ domainList = Sort(domains)
  /\ pacCode = PacText(proxyServerField, domains)
  /\ notification = NoNotification
  /\ decide = NoCall
  /\ last = [op |-> "init", arg |-> <<>>, repeat |-> FALSE]
  /\ clipboard = NoText
  /\ downloaded = NoFile
  /\ pendingCopy = <<>>
  /\ ManagedInit
  /\ policy = [maxCount |-> 3]
  /\ TesterInit
  /\ LauncherInit
  /\ chart = NoChart
  /\ stats = NoMetrics
  /\ time = 0
  /\ seed = 0
  /\ lastMetrics = NoMetrics
  /\ animationFrameId = 1
  /\ frames = << [id |-> 1, kind |-> "loop", metrics |-> NoMetrics] >>
  /\ requested = 1
  /\ stopped = FALSE

\* an animation frame: the callbacks requested before it run, in order
AnimationFrame(due, newMetrics) ==
  LET s == RunCallbacks([chart |-> chart, stats |-> stats, time |-> time + 1,
                         lastMetrics |-> lastMetrics,
                         animationFrameId |-> animationFrameId,
                         frames |-> <<>>, requested |-> requested],
                        frames, 1, due, newMetrics)
  IN  /\ time < MaxFrames
      /\ frames # <<>>
      /\ chart' = s.chart
      /\ stats' = s.stats
      /\ time' = s.time
      /\ lastMetrics' = s.lastMetrics
      /\ animationFrameId' = s.animationFrameId
      /\ frames' = s.frames
      /\ requested' = s.requested
      /\ UNCHANGED <<seed, stopped, page, exported, managed, tester,
                     launcher>>

\* stopPerformanceMonitoring
StopPerformanceMonitoring ==
  /\ IF animationFrameId # 0
     THEN /\ frames' = SelectSeq(frames, LAMBDA f : f.id # animationFrameId)
          /\ animationFrameId' = 0
     ELSE UNCHANGED <<frames, animationFrameId>>
  /\ stopped' = TRUE
  /\ UNCHANGED <<chart, stats, time, seed, lastMetrics, requested, page,
                 exported, managed, tester, launcher>>

MonitorNext ==
  \/ \E due \in BOOLEAN, m \in MetricsDrawn : AnimationFrame(due, m)
  \/ StopPerformanceMonitoring

MonitorSpec == MonitorInit /\ [][MonitorNext]_vars

(***************************************************************************)
(* The performance monitor of demo.js: an interval that is never cleared   *)
(* calls updatePerformanceMetrics every two seconds.  Math.random is a     *)
(* generator that the page load seeds; its values are in hundredths.       *)
(***************************************************************************)
\* most metric updates in a run
MaxUpdates == 23

Seeds == 0 .. 4

\* the i-th value of Math.random, in hundredths
Random(i) == ((seed + i) * 37) % 100

\* Math.floor(Math.random() * 50) + 70
Latency(i) == ((Random(i) * 50) \div 100) + 70

\* Math.floor(Math.random() * 5) + 10
ActiveProxies(i) == ((Random(i) * 5) \div 100) + 10

\* (98 + Math.random() * 2).toFixed(1), in tenths
SuccessRate(i) == 980 + ((Random(i) * 20 + 50) \div 100)

ChartInit ==
  /\ domains = loadDefaultDomains
  /\ proxyServerField = ""
  /\ newDomain = <<>>
  /\ domainList = Sort(domains)
  /\ pacCode = PacText(proxyServerField, domains)
  /\ notification = NoNotification
  /\ decide = NoCall
  /\ last = [op |-> "init", arg |-> <<>>, repeat |-> FALSE]
  /\ clipboard = NoText
  /\ downloaded = NoFile
  /\ pendingCopy = <<>>
  /\ ManagedInit
  /\ policy = [maxCount |-> 3]
  /\ TesterInit
  /\ LauncherInit
  /\ MonitorIdle
  /\ seed \in Seeds

\* the callback of setInterval: updatePerformanceMetrics
PerformanceInterval ==
  /\ time < MaxUpdates
  /\ time' = time + 1
  /\ chart' = updateChart(chart, time', Latency(3 * time))
  /\ stats' = [latency |-> Latency(3 * time),
               activeProxies |-> ActiveProxies(3 * time + 1),
               successRate |-> SuccessRate(3 * time + 2)]
  /\ UNCHANGED <<seed, lastMetrics, animationFrameId, frames, requested,
                 stopped, page, exported, managed, tester, launcher>>

ChartSpec == ChartInit /\ [][PerformanceInterval]_vars

(***************************************************************************)
(* The launcher: a bash script under set -e.  It checks its dependencies   *)
(* and then loops over a menu.  A function of the script is the sequence   *)
(* of its echo lines and commands; blank lines and the colours are left    *)
(* out.  A command exits with 0 or with 1, which stands for every other    *)
(* status.                                                                 *)
(***************************************************************************)
\* most menu choices in a run
MaxChoices == 3

Echo(text) == [kind |-> "echo", text |-> text, relative |-> FALSE]

\* a command; relative is whether it names a path under the start directory
Command(text, relative) == [kind |-> "cmd", text |-> text, relative |-> relative]

PressEnter == Command("read -p Press Enter to continue...", FALSE)

AllTestsPassed == "All tests passed!"

run_web_demo ==
  << Echo("Starting Interactive Web Demo..."),
     Command("cd demo", TRUE),
     Command("python3 -m http.server 8080", FALSE) >>

run_pac_tester ==
  << Echo("Starting PAC Web Tester..."),
     Command("python3 scripts/pac_web_tester.py", TRUE) >>

run_cli_demo ==
  << Echo("Command Line Tools Demo"),
     Echo("1. Validating PAC files..."),
     Command("python3 scripts/pac_manager.py --config scripts/config.json --validate pac pac5", TRUE),
     Echo("2. Testing configuration update..."),
     Command("python3 scripts/pac_manager.py --config scripts/config.json --stats", TRUE),
     Echo("3. Generating backup..."),
     Command("python3 scripts/pac_manager.py --config scripts/config.json pac", TRUE),
     Echo("CLI demo completed!"),
     PressEnter >>

run_all_tests ==
  << Echo("Running All Tests..."),
     Echo("Testing PAC syntax validation..."),
     Command("python3 scripts/pac_manager.py --validate pac pac5", TRUE),
     Echo("Testing configuration management..."),
     Command("python3 scripts/pac_manager.py --config scripts/config.json --stats", TRUE),
     Echo("Testing web tester import..."),
     Command("python3 -c from pac_web_tester import PACTester", TRUE),
     Echo(AllTestsPassed),
     PressEnter >>

generate_stats ==
  << Echo("Generating Statistics Report..."),
     Command("python3 scripts/pac_manager.py --config scripts/config.json --stats", TRUE),
     Echo("Domain Analysis:"),
     Command("python3 -c from pac_web_tester import PACTester", TRUE),
     PressEnter >>

\* show_docs, by whether docs/QUICKSTART.md and README_EN.md are files
show_docs(quickstart, readme) ==
  << Echo("Documentation") >>
  \o (IF quickstart
      THEN << Echo("Quick Start Guide:"),
              Command("head -20 docs/QUICKSTART.md", TRUE), Echo("...") >>
      ELSE <<>>)
  \o (IF readme
      THEN << Echo("English README:"),
              Command("head -15 README_EN.md", TRUE), Echo("...") >>
      ELSE <<>>)
  \o << Echo("Available files:"), PressEnter >>

\* what the menu offers, and what can be typed instead
Choices == {"0", "1", "2", "3", "4", "5", "6"}

Typed == Choices \cup {"7", "", "00"}

\* the case statement of the main loop, but for 0
Mode(choice, quickstart, readme) ==
  CASE choice = "1" -> run_web_demo
    [] choice = "2" -> run_pac_tester
    [] choice = "3" -> run_cli_demo
    [] choice = "4" -> run_all_tests
    [] choice = "5" -> generate_stats
    [] choice = "6" -> show_docs(quickstart /\ cwd = "root", readme /\ cwd = "root")
    [] OTHER -> << Echo("Invalid option. Please choose 0-6.") >>

\* the statuses the commands of a function can exit with, one for each
Statuses(body) ==
  [1 .. Len(SelectSeq(body, LAMBDA item : item.kind = "cmd")) -> {0, 1}]

Entry(kind, text, status) == [kind |-> kind, text |-> text, status |-> status]

\* the shell without set -e: a function runs to its end
RECURSIVE RunNoErrexit(_, _, _, _, _)
RunNoErrexit(body, i, k, status, s) ==
  IF i > Len(body) THEN s
  ELSE IF body[i].kind = "echo"
       THEN RunNoErrexit(body, i + 1, k, status,
                [s EXCEPT !.log = Append(@, Entry("echo", body[i].text, 0))])
       ELSE LET st == IF body[i].relative /\ s.cwd = "demo" THEN 1
                      ELSE status[k]
            IN  RunNoErrexit(body, i + 1, k + 1, status,
                    [log |-> Append(s.log, Entry("cmd", body[i].text, st)),
                     cwd |-> IF body[i].text = "cd demo" /\ st = 0 THEN "demo"
                             ELSE s.cwd,
                     failed |-> 0])

\* the shell under set -e from item i of a function, its k-th command
\* next: it stops at the first command that exits with another status than
\* 0.  A command that names a path under the start directory fails in demo.
RECURSIVE Run(_, _, _, _, _)
Run(body, i, k, status, s) ==
  IF i > Len(body) \/ s.failed # 0 THEN s
  ELSE IF body[i].kind = "echo"
       THEN Run(body, i + 1, k, status,
                [s EXCEPT !.log = Append(@, Entry("echo", body[i].text, 0))])
       ELSE LET st == IF body[i].relative /\ s.cwd = "demo" THEN 1
                      ELSE status[k]
            IN  Run(body, i + 1, k + 1, status,
                    [log |-> Append(s.log, Entry("cmd", body[i].text, st)),
                     cwd |-> IF body[i].text = "cd demo" /\ st = 0 THEN "demo"
                             ELSE s.cwd,
                     failed |-> st])

\* the check of one module: 0 when the launcher goes on, or the status it
\* exits with.  found is whether the import works, readStatus the status of
\* read -p, confirm the answer, and pip the status of pip3 install.
CheckModule(found, readStatus, confirm, pip) ==
  IF found THEN 0
  ELSE IF readStatus # 0 THEN readStatus
  ELSE IF confirm \in {"y", "Y"} THEN pip
  ELSE 1

\* the launcher up to its main loop
CheckDependencies(python3, flask, pytz) ==
  LET status == IF ~python3 THEN 1
                ELSE IF flask # 0 THEN flask
                ELSE pytz
  IN  /\ shell = "checking"
      /\ shell' = IF status = 0 THEN "menu" ELSE "exited"
      /\ exitStatus' = status
      /\ log' = Append(log, Entry("echo", IF status = 0 THEN "Dependencies checked"
                                          ELSE "Checking dependencies...", 0))
      /\ UNCHANGED <<cwd, rounds, page, exported, managed, tester, monitor>>

\* one turn of the main loop: read choice succeeds and the case runs
MenuChoice(choice, status, quickstart, readme) ==
  LET typed == Append(log, Entry("read", choice, 0))
      ran   == Run(Mode(choice, quickstart, readme), 1, 1, status,
                   [log |-> typed, cwd |-> cwd, failed |-> 0])
  IN  /\ shell = "menu"
      /\ rounds < MaxChoices
      /\ rounds' = rounds + 1
      /\ IF choice = "0"
         THEN /\ log' = Append(typed, Entry("echo",
                                  "Thanks for trying the PAC Proxy Demo!", 0))
              /\ shell' = "exited"
              /\ exitStatus' = 0
              /\ cwd' = cwd
         ELSE /\ log' = ran.log
              /\ cwd' = ran.cwd
              /\ shell' = IF ran.failed = 0 THEN "menu" ELSE "exited"
              /\ exitStatus' = ran.failed
      /\ UNCHANGED <<page, exported, managed, tester, monitor>>

\* read choice at the end of the input: read fails and set -e ends the
\* launcher
EndOfInput ==
  /\ shell = "menu"
  /\ log' = Append(log, Entry("read", "", 1))
  /\ shell' = "exited"
  /\ exitStatus' = 1
  /\ UNCHANGED <<cwd, rounds, page, exported, managed, tester, monitor>>

LauncherNext ==
  \/ \E python3 \in BOOLEAN, found \in BOOLEAN \X BOOLEAN,
        readStatus \in {0, 1}, confirm \in {"y", "N", ""}, pip \in {0, 1} :
        CheckDependencies(python3,
                          CheckModule(found[1], readStatus, confirm, pip),
                          CheckModule(found[2], readStatus, confirm, pip))
  \/ \E choice \in Typed, quickstart \in BOOLEAN, readme \in BOOLEAN :
        \E status \in Statuses(Mode(choice, quickstart, readme)) :
          MenuChoice(choice, status, quickstart, readme)
  \/ EndOfInput

\* the launcher starts beside an untouched page
LauncherStart == Init /\ proxyServerField = ""

LauncherSpec == LauncherStart /\ [][LauncherNext]_vars

(***************************************************************************)
(* Vocabulary of the properties, stated on the host name itself and not    *)
(* through the operators the scans use.                                    *)
(***************************************************************************)
\* where a label-boundary suffix of h can start (0-based)
Boundaries(h) == {0} \cup {i \in 1..Len(h) : h[i] = "."}

SuffixFrom(h, b) == SubSeq(h, b + 1, Len(h))

LabelSuffixes(h) == {SuffixFrom(h, b) : b \in Boundaries(h)}

\* the suffixes from the rightmost single label to the whole host name
ShortestFirst(h) ==
  LET B == Boundaries(h)
      Nth(k) == CHOOSE b \in B : Cardinality({c \in B : c > b}) = k - 1
  IN  [k \in 1..Cardinality(B) |-> SuffixFrom(h, Nth(k))]

\* the suffixes from the whole host name to the rightmost single label
LongestFirst(h) ==
  LET s == ShortestFirst(h) IN [k \in 1..Len(s) |-> s[Len(s) + 1 - k]]

AllButLast(s) == SubSeq(s, 1, Len(s) - 1)

\* the candidates up to and including the first one the rule set holds
UpToFirstMatch(cands, set) ==
  LET hits == {i \in 1..Len(cands) : cands[i] \in Range(set)}
  IN  IF hits = {} THEN cands
      ELSE SubSeq(cands, 1, CHOOSE i \in hits : \A j \in hits : i <= j)

Returned == decide.pc = "done"

Verdict ==
  IF decide.ret \in {"true", "proxy"} THEN "PROXY"
  ELSE IF decide.ret \in {"false", "direct"} THEN "DIRECT"
  ELSE "none"

\* an empty host name, or one with an empty label
MalformedHost(h) ==
  \/ h = <<>>
  \/ h[1] = "." \/ h[Len(h)] = "."
  \/ \E i \in 1..(Len(h) - 1) : h[i] = "." /\ h[i + 1] = "."

HasDot(h) == \E i \in 1..Len(h) : h[i] = "."

WwwFacebookCom ==
  <<"w","w","w",".","f","a","c","e","b","o","o","k",".","c","o","m">>

(***************************************************************************)
(* C1: whenever either decision function (the tester checkDomainInPAC, or  *)
(* the FindProxyForURL scan of the displayed artifact) has returned for a  *)
(* host name, its verdict is PROXY exactly when some label-boundary suffix *)
(* of the host name, from its last label to the whole name, is an entry of *)
(* the current rule set, and DIRECT otherwise.                             *)
(***************************************************************************)
C1_VerdictIffSuffixInRuleSet ==
  Returned =>
    /\ Verdict \in {"PROXY", "DIRECT"}
    /\ Verdict = "PROXY" <=>
         \E s \in LabelSuffixes(decide.host) : s \in Range(domains)

\* www.facebook.com is sent to the proxy by the artifact's scan
C1_Witness ==
  /\ Returned
  /\ decide.fn = "FindProxyForURL"
  /\ decide.host = WwwFacebookCom
  /\ decide.ret = "proxy"

(***************************************************************************)
(* C2 as stated: whichever decision function has returned, the candidates  *)
(* it tested are the label-boundary suffixes of the host name from the     *)
(* rightmost single label leftwards to the whole host name, cut after the  *)
(* first one that is in the rule set (for a well-formed host name of two   *)
(* or more labels).                                                        *)
(***************************************************************************)
C2_ShortestFirstEverywhere ==
  (Returned /\ ~MalformedHost(decide.host) /\ HasDot(decide.host)) =>
    decide.tried = UpToFirstMatch(ShortestFirst(decide.host), decide.table)

(***************************************************************************)
(* C2 amended: the FindProxyForURL scan of the artifact tests the suffixes *)
(* shortest first, one more label at each step, up to the whole host name  *)
(* (up to the host name without its leading dot when it begins with a      *)
(* dot), and stops at the first one in the rule set.  checkDomainInPAC     *)
(* tests them in the opposite order, the whole host name first and one     *)
(* label fewer at each step, never the rightmost single label, and also    *)
(* stops at the first one in the rule set.                                 *)
(***************************************************************************)
C2_ScanOrders ==
  Returned =>
    LET h == decide.host
        scanCands  == IF h # <<>> /\ h[1] = "." THEN AllButLast(ShortestFirst(h))
                      ELSE ShortestFirst(h)
        checkCands == AllButLast(LongestFirst(h))
    IN  /\ decide.fn = "FindProxyForURL" =>
             decide.tried = UpToFirstMatch(scanCands, decide.table)
        /\ decide.fn = "checkDomainInPAC" =>
             decide.tried = UpToFirstMatch(checkCands, decide.table)

\* c.d.com with d.com in the rule set: the scan tested com, then d.com, and stopped
C2_Witness ==
  /\ Returned
  /\ decide.fn = "FindProxyForURL"
  /\ decide.host = <<"c",".","d",".","c","o","m">>
  /\ decide.tried = << <<"c","o","m">>, <<"d",".","c","o","m">> >>
  /\ decide.ret = "proxy"

(***************************************************************************)
(* C3: the mapping literal of the displayed artifact lists its entries in  *)
(* lexicographic order, whatever the order of insertion, so that the       *)
(* artifact is a function of the content of the rule set and the endpoint. *)
(***************************************************************************)
C3_EntriesInLexicographicOrder ==
  \A i, j \in 1..Len(pacCode.entries) :
     i < j => LexLess(pacCode.entries[i], pacCode.entries[j])

(***************************************************************************)
(* C4: a generation that finds the rule set and the endpoint field as the  *)
(* previous generation left them produces the text already displayed.      *)
(***************************************************************************)
C4_RegenerationIsIdentical ==
  [][ ( /\ last'.op = "proxyServerInput"
        /\ domains' = domains
        /\ proxyServerField' = proxyServerField )
      => pacCode' = pacCode ]_vars

\* the artifact was generated again over an unchanged field, after the rule
\* set had been changed and generated from
C4_Witness ==
  /\ last.op = "proxyServerInput"
  /\ last.repeat
  /\ domains # loadDefaultDomains

(***************************************************************************)
(* C5: for a normalized domain d (not empty, lowercase, no leading or      *)
(* trailing dot, no blank), the rule set contains d right after add(d)     *)
(* and does not contain d right after remove(d).                           *)
(***************************************************************************)
Normalized(d) ==
  /\ d # <<>>
  /\ d[1] # "." /\ d[Len(d)] # "."
  /\ \A i \in 1..Len(d) : ~IsUpper(d[i]) /\ d[i] # " "

C5_ContainsAfterAddNotAfterRemove ==
  /\ (last.op = "addDomain" /\ Normalized(last.arg))
       => last.arg \in Range(domains)
  /\ (last.op = "removeDomain" /\ Normalized(last.arg))
       => last.arg \notin Range(domains)

(***************************************************************************)
(* C6: in every reachable state the entries of the rule set are pairwise   *)
(* different and each is normalized: lowercase, with no leading or         *)
(* trailing dot and no surrounding whitespace.                             *)
(***************************************************************************)
C6_EntriesUniqueAndNormalized ==
  /\ Cardinality(Range(domains)) = Len(domains)
  /\ \A i \in 1..Len(domains) : Normalized(domains[i])

\* the padded, capitalised input " D.Com " was added, as d.com
C6_Witness ==
  /\ last.op = "addDomain"
  /\ last.arg = <<" ","D",".","C","o","m"," ">>
  /\ <<"d",".","c","o","m">> \in Range(domains)

(***************************************************************************)
(* C7: an add whose input is empty or malformed (blank, or with a leading  *)
(* or trailing dot, an empty label, or a character no domain name has) is  *)
(* reported with an error notification, and leaves the rule set, the       *)
(* displayed domain list and the displayed artifact as they were.          *)
(***************************************************************************)
MalformedEntry(v) ==
  LET d == SelectSeq(v, LAMBDA c : c # " ")
  IN  \/ d = <<>>
      \/ d[1] = "." \/ d[Len(d)] = "."
      \/ \E i \in 1..(Len(d) - 1) : d[i] = "." /\ d[i + 1] = "."
      \/ \E i \in 1..Len(d) : ~(IsAlnumHyphen(d[i]) \/ d[i] = ".")

C7_MalformedAddRejectedAndInert ==
  [][ (last'.op = "addDomain" /\ MalformedEntry(last'.arg))
      => /\ notification'.type = "error"
         /\ domains' = domains
         /\ domainList' = domainList
         /\ pacCode' = pacCode ]_vars

\* "d.com." was typed after the rule set had changed, and was refused
C7_Witness ==
  /\ last.op = "addDomain"
  /\ last.arg = <<"d",".","c","o","m",".">>
  /\ notification.type = "error"
  /\ domains # loadDefaultDomains

(***************************************************************************)
(* C8: a decision function given an empty or malformed host name (one      *)
(* with an empty label) returns no PROXY or DIRECT verdict.                *)
(***************************************************************************)
C8_MalformedHostRefused ==
  (Returned /\ MalformedHost(decide.host)) => Verdict = "none"

(***************************************************************************)
(* C9: a decision function that returns yields PROXY or DIRECT; each       *)
(* iteration of the artifact's while(1) loop that does not leave the loop  *)
(* strictly decreases pos, which is never below -1; and every scan that    *)
(* has started returns.                                                    *)
(***************************************************************************)
C9_DecideIsTotal ==
  /\ [](Returned => Verdict \in {"PROXY", "DIRECT"})
  /\ [](decide.pos >= -1)
  /\ [][ (decide.pc = "loop" /\ decide'.pc = "loop")
         => decide'.pos < decide.pos ]_vars
  /\ (decide.pc = "loop") ~> Returned

\* x.y.com went three times round the loop and came out DIRECT
C9_Witness ==
  /\ Returned
  /\ decide.fn = "FindProxyForURL"
  /\ decide.host = <<"x",".","y",".","c","o","m">>
  /\ Len(decide.tried) = 3
  /\ decide.ret = "direct"

IsIPLiteral(h) ==
  LET parts == Split(h)
  IN  /\ Len(parts) = 4
      /\ \A i \in 1..4 :
            /\ parts[i] # <<>>
            /\ \A j \in 1..Len(parts[i]) : IsDigit(parts[i][j])

C11_LiteralIsOneCandidate ==
  (Returned /\ IsIPLiteral(decide.host)) => decide.tried = <<decide.host>>

(***************************************************************************)
(* C11 amended: for a host name that is an IPv4 literal, both decision     *)
(* functions test its dot-separated tails like those of any other host     *)
(* name (the scan of the artifact all four suffixes, shortest first;       *)
(* checkDomainInPAC the three longest, whole literal first), but none of   *)
(* the tails is ever an entry of the rule set: the verdict is PROXY only   *)
(* when the whole literal is an entry, and otherwise DIRECT.               *)
(***************************************************************************)
C11_LiteralNeverMatchedByTail ==
  (Returned /\ IsIPLiteral(decide.host)) =>
    LET h == decide.host
    IN  /\ decide.fn = "FindProxyForURL" =>
              decide.tried = ShortestFirst(h)
        /\ decide.fn = "checkDomainInPAC" =>
              decide.tried = AllButLast(LongestFirst(h))
        /\ \A s \in LabelSuffixes(h) \ {h} : s \notin Range(decide.table)
        /\ Verdict = (IF h \in Range(decide.table) THEN "PROXY" ELSE "DIRECT")

\* the artifact's scan tested 4, 3.4, 2.3.4 and 1.2.3.4, and answered DIRECT
C11_Witness ==
  /\ Returned
  /\ decide.fn = "FindProxyForURL"
  /\ decide.host = <<"1",".","2",".","3",".","4">>
  /\ decide.tried = << <<"4">>, <<"3",".","4">>, <<"2",".","3",".","4">>,
                       <<"1",".","2",".","3",".","4">> >>
  /\ decide.ret = "direct"

(***************************************************************************)
(* C12: in every state an operation leaves behind (construction, add,      *)
(* remove, a change of the endpoint field), the keys of the mapping        *)
(* literal of the displayed artifact are exactly the entries of the rule   *)
(* set, each key once, and the proxy directive of the artifact names the   *)
(* endpoint the field holds (the built-in endpoint when it is empty).      *)
(***************************************************************************)
C12_ArtifactReflectsRuleSetAndEndpoint ==
  /\ Range(pacCode.entries) = Range(domains)
  /\ Cardinality(Range(pacCode.entries)) = Len(pacCode.entries)
  /\ pacCode.proxy =
       "PROXY "
         \o (IF proxyServerField = "" THEN "162.159.138.110:443"
             ELSE proxyServerField)
         \o ";"

\* the endpoint was changed after facebook.com had been removed and d.com
\* added: the artifact shows all three changes
C12_Witness ==
  /\ last.op = "proxyServerInput"
  /\ ~last.repeat
  /\ proxyServerField = "10.0.0.1:8080"
  /\ pacCode.proxy = "PROXY 10.0.0.1:8080;"
  /\ <<"d",".","c","o","m">> \in Range(pacCode.entries)
  /\ <<"f","a","c","e","b","o","o","k",".","c","o","m">>
       \notin Range(pacCode.entries)

C14_GenerateIsPureExportIsExplicit ==
  [][ /\ last'.op = "generatePACCode" =>
           /\ domains' = domains
           /\ proxyServerField' = proxyServerField
           /\ exported' = exported
      /\ last'.op \in {"addDomain", "removeDomain", "proxyServerInput"} =>
           exported' = exported
      /\ downloaded' # downloaded =>
           /\ last'.op = "downloadPAC"
           /\ downloaded'.text = pacCode
           /\ pacCode = PacText(proxyServerField, domains)
      /\ pendingCopy' # pendingCopy =>
           \/ /\ last'.op = "copyPAC"
              /\ pendingCopy' = Append(pendingCopy, pacCode)
              /\ pacCode = PacText(proxyServerField, domains)
           \/ /\ last'.op \in {"copyFulfilled", "copyRejected"}
              /\ pendingCopy' = Tail(pendingCopy)
      /\ clipboard' # clipboard =>
           /\ last'.op = "copyFulfilled"
           /\ clipboard' = Head(pendingCopy) ]_vars

\* the artifact generated for the typed endpoint with d.com added has been
\* downloaded and has reached the clipboard
C14_Witness ==
  /\ downloaded.name = "proxy.pac"
  /\ downloaded.text = pacCode
  /\ clipboard = pacCode
  /\ pacCode.proxy = "PROXY 10.0.0.1:8080;"
  /\ <<"d",".","c","o","m">> \in Range(pacCode.entries)

(***************************************************************************)
(* C15: an add of a domain that is already an entry of the rule set leaves *)
(* the rule set, order included, and the displayed artifact as they were.  *)
(***************************************************************************)
C15_AddIsIdempotent ==
  [][ (last'.op = "addDomain" /\ last'.arg \in Range(domains))
      => /\ domains' = domains
         /\ pacCode' = pacCode ]_vars

\* facebook.com was added to a rule set that had it from the start
C15_Witness ==
  /\ last.op = "addDomain"
  /\ last.arg = <<"f","a","c","e","b","o","o","k",".","c","o","m">>
  /\ notification.type = "success"
  /\ domains = loadDefaultDomains

(***************************************************************************)
(* C16: a remove reports whether it removed an entry.  removeDomain        *)
(* returns no value; what it reports is its notification, so: the          *)
(* notification of a remove says that a domain was removed exactly when    *)
(* the domain was an entry of the rule set before the remove.              *)
(***************************************************************************)
C16_RemoveReportsWhetherRemoved ==
  [][ last'.op = "removeDomain"
      => ( notification'.message = "Domain removed successfully!"
           <=> last'.arg \in Range(domains) ) ]_vars

(***************************************************************************)
(* C17: the managed file is at all times the rendering of the rule set; an *)
(* operation that returns BackupError leaves the rule set, the managed     *)
(* file and the backups as they were and regenerates nothing; and a step   *)
(* that changes the rule set or the file, or regenerates, has first taken  *)
(* a backup of the file as it was, which is the newest record afterwards.  *)
(***************************************************************************)
C17_NoMutationWithoutBackup ==
  /\ [](managedFile = Render(ruleSet))
  /\ [][ outcome'.result = "BackupError"
         => /\ ruleSet' = ruleSet
            /\ managedFile' = managedFile
            /\ history' = history
            /\ mutated' = mutated
            /\ ~outcome'.regenerated ]_vars
  /\ [][ (ruleSet' # ruleSet \/ managedFile' # managedFile
           \/ outcome'.regenerated)
         => \E r \in Range(history') :
               /\ r.content = managedFile
               /\ \A q \in Range(history) : q.timestamp < r.timestamp
               /\ \A q \in Range(history') : q.timestamp <= r.timestamp ]_vars

\* an update found its source unreadable, after an earlier one had gone
\* through: the file and its backups are those the earlier one left
C17_Witness ==
  /\ outcome.op = "update"
  /\ outcome.result = "BackupError"
  /\ mutated
  /\ managedFile = Render({"c.com", "d.com"})
  /\ history # <<>>

(***************************************************************************)
(* C18: a prune keeps records of the history and evicts only records older *)
(* than every record it keeps; it returns the records it evicted; what it  *)
(* keeps is within the maximum count and the byte cap of the policy unless *)
(* a single record is left; it evicts no more than that takes; and under a *)
(* policy of a maximum count N and no byte cap, from a history of more     *)
(* than N records it keeps exactly the N with the latest timestamps.       *)
(***************************************************************************)
Latest(records, n) ==
  {r \in Range(records) :
     Cardinality({q \in Range(records) : q.timestamp > r.timestamp}) < n}

DistinctTimestamps(records) ==
  \A i, j \in 1..Len(records) :
     i # j => records[i].timestamp # records[j].timestamp

C18_PruneKeepsTheMostRecent ==
  [][ outcome'.op = "prune" =>
        LET n       == policy.maxCount
            capped  == "maxTotalBytes" \in DOMAIN policy
            kept    == Range(history')
            gone    == Range(history) \ kept
            within(count, bytes) ==
              count <= n /\ (capped => bytes <= policy.maxTotalBytes)
        IN  /\ kept \subseteq Range(history)
            /\ Range(outcome'.evicted) = gone
            /\ \A e \in gone, k \in kept : e.timestamp < k.timestamp
            /\ \/ within(Len(history'), TotalBytes(history', 1))
               \/ Len(history') = 1
            /\ \A e \in gone :
                  (\A f \in gone : f.timestamp <= e.timestamp)
                  => ~within(Len(history') + 1,
                             TotalBytes(history', 1) + e.size)
            /\ (~capped /\ Len(history) > n /\ DistinctTimestamps(history))
                 => /\ kept = Latest(history, n)
                    /\ Len(history') = n
                    /\ Len(outcome'.evicted) = Len(history) - n ]_vars

\* five backups under a maximum count of three: the two oldest were evicted
C18_Witness ==
  /\ outcome.op = "prune"
  /\ policy = [maxCount |-> 3]
  /\ Len(outcome.evicted) = 2
  /\ Len(history) = 3
  /\ \A e \in Range(outcome.evicted), k \in Range(history) :
        e.timestamp < k.timestamp

RECURSIVE RunScan(_)
RunScan(f) == IF f.pc = "done" THEN f ELSE RunScan(ScanBody(f))

ScanOf(host, table) ==
  RunScan([NoCall EXCEPT !.fn = "FindProxyForURL", !.pc = "loop",
                         !.host = host, !.table = table,
                         !.pos = LastIndexOf(host, Len(host))])

C20_TesterAgreesWithArtifact ==
  Returned =>
    /\ decide.fn = "checkDomainInPAC" =>
         ( decide.ret = "true"
           <=> ScanOf(decide.host, pacCode.entries).ret = "proxy" )
    /\ decide.fn = "FindProxyForURL" =>
         ( decide.ret = "proxy"
           <=> checkDomainInPAC(decide.host, domains).ret = "true" )

\* .d.com with d.com in the rule set: the tester said true, as the scan of
\* the artifact says proxy
C20_Witness ==
  /\ Returned
  /\ decide.fn = "checkDomainInPAC"
  /\ decide.host = <<".","d",".","c","o","m">>
  /\ decide.ret = "true"
  /\ ScanOf(decide.host, pacCode.entries).ret = "proxy"

(***************************************************************************)
(* C21: in every reachable state each entry of the rule set is two         *)
(* non-empty labels around its only dot, the last label of two or more     *)
(* letters and nothing but letters; and an add whose input, trimmed, has   *)
(* no dot or more than one is refused and leaves the rule set as it was.   *)
(***************************************************************************)
DotsOf(s) == {k \in 1..Len(s) : s[k] = "."}

TwoLabels(d) ==
  /\ Cardinality(DotsOf(d)) = 1
  /\ \A k \in DotsOf(d) :
        /\ k > 1
        /\ Len(d) - k >= 2
        /\ \A i \in (k + 1)..Len(d) : IsUpper(d[i]) \/ IsLower(d[i])

C21_EntriesHaveTwoLabels ==
  /\ [](\A i \in 1..Len(domains) : TwoLabels(domains[i]))
  /\ [][ (last'.op = "addDomain" /\ Cardinality(DotsOf(last'.arg)) # 1)
         => /\ notification'.type = "error"
            /\ domains' = domains ]_vars

\* c.d.com was typed when the rule set held d.com, and was refused
C21_Witness ==
  /\ last.op = "addDomain"
  /\ last.arg = <<"c",".","d",".","c","o","m">>
  /\ notification.type = "error"
  /\ <<"d",".","c","o","m">> \in Range(domains)
  /\ <<"c",".","d",".","c","o","m">> \notin Range(domains)

(***************************************************************************)
(* C22: when the timer of a test fires on a URL that parses, the verdict   *)
(* displayed is PROXY exactly when a label-boundary suffix of the URL's    *)
(* host, of two labels or more, is an entry of the rule set as it is then, *)
(* and the endpoint displayed is the one the field holds then; what the    *)
(* rule set and the field were at the click plays no part.                 *)
(***************************************************************************)
C22_VerdictIsOfFiringTime ==
  [][ (last'.op = "testTimer" /\ testResult'.kind = "result") =>
        LET matches ==
              \E s \in LabelSuffixes(testResult'.host) :
                 HasDot(s) /\ s \in Range(domains)
            endpoint ==
              IF proxyServerField = "" THEN "162.159.138.110:443"
              ELSE proxyServerField
        IN  /\ testResult'.url = Head(pendingTests).url
            /\ testResult'.action =
                 (IF matches THEN "PROXY " \o endpoint ELSE "DIRECT") ]_vars

\* http://D.com was submitted when the rule set had no d.com and the field
\* was empty; d.com was added and an endpoint typed before the timer fired
C22_Witness ==
  /\ last.op = "testTimer"
  /\ ~last.repeat
  /\ testResult.kind = "result"
  /\ testResult.host = <<"d",".","c","o","m">>
  /\ testResult.action = "PROXY 10.0.0.1:8080"
  /\ performanceData = <<"proxy">>

(***************************************************************************)
(* C23: once stopPerformanceMonitoring has returned, no step updates the   *)
(* metrics: the chart, the statistics displayed and lastMetrics stay as    *)
(* they are.                                                               *)
(***************************************************************************)
C23_NoUpdateAfterStop ==
  [][ stopped => /\ chart' = chart
                 /\ stats' = stats
                 /\ lastMetrics' = lastMetrics ]_vars

(***************************************************************************)
(* C24: the chart is a bounded sliding window.  The labels and the data    *)
(* are always as many, and never more than 21; an update that finds more   *)
(* than 20 points leaves the points it found but the oldest, followed by   *)
(* the new one, and an update that finds 20 or fewer drops none.           *)
(***************************************************************************)
Points(c) == [i \in 1 .. Len(c.labels) |-> <<c.labels[i], c.data[i]>>]

C24_ChartIsABoundedWindow ==
  /\ [](Len(chart.labels) = Len(chart.data) /\ Len(chart.labels) <= 21)
  /\ [][ chart' # chart =>
           /\ Len(chart'.labels) = Len(chart'.data)
           /\ AllButLast(Points(chart')) =
                IF Len(chart.labels) > 20 THEN Tail(Points(chart))
                ELSE Points(chart) ]_vars

\* the window is full and its oldest point is no longer the first one made
C24_Witness ==
  /\ Len(chart.labels) = 21
  /\ chart.labels[1] > 1
  /\ last.op = "init"

(***************************************************************************)
(* C25: the launcher prints "All tests passed!" only when the three test   *)
(* commands of Run All Tests, and with them every command run since that   *)
(* mode began, exited with status 0; it exits with status 0 only after     *)
(* reading the choice 0; and a choice off the menu runs no command, keeps  *)
(* the working directory and leaves the launcher at the menu.              *)
(***************************************************************************)
\* the entry that began the mode entry i of the log belongs to
ModeStart(i) ==
  CHOOSE j \in 1 .. i :
    /\ log[j].kind = "read"
    /\ \A m \in (j + 1) .. i : log[m].kind # "read"

TestCommands == {item.text : item \in {c \in Range(run_all_tests) :
                                        c.kind = "cmd" /\ c.relative}}

C25_PassedOnlyIfAllPassed ==
  \A i \in 1 .. Len(log) :
    (log[i].kind = "echo" /\ log[i].text = AllTestsPassed) =>
      /\ log[ModeStart(i)].text = "4"
      /\ \A m \in ModeStart(i) .. i : log[m].status = 0
      /\ TestCommands =
           {log[m].text : m \in {n \in ModeStart(i) .. i : log[n].kind = "cmd"}}

C25_ExitZeroOnlyByChoiceZero ==
  (shell = "exited" /\ exitStatus = 0) =>
    /\ Len(log) >= 2
    /\ log[Len(log) - 1] = Entry("read", "0", 0)

C25_InvalidChoiceReturnsToMenu ==
  [][ (rounds' # rounds /\ log'[Len(log) + 1].text \notin Choices) =>
        /\ \A m \in (Len(log) + 1) .. Len(log') : log'[m].kind # "cmd"
        /\ cwd' = cwd
        /\ shell' = "menu" ]_vars

C25_LauncherExits ==
  /\ [](C25_PassedOnlyIfAllPassed /\ C25_ExitZeroOnlyByChoiceZero)
  /\ C25_InvalidChoiceReturnsToMenu

\* a run that took a choice off the menu, then passed all the tests, then
\* left by 0
C25_Witness ==
  /\ shell = "exited"
  /\ exitStatus = 0
  /\ \E i \in 1 .. Len(log) : log[i] = Entry("read", "7", 0)
  /\ \E i \in 1 .. Len(log) : log[i] = Entry("echo", AllTestsPassed, 0)

====
